---- MODULE Spec2Model ----
(***************************************************************************)
(* Model of package analyzer (analyzer/analyzer.go): the analyzer          *)
(* registry, the required-files aggregation, the two extraction entry      *)
(* points and the OS / package / library resolvers.                        *)
(*                                                                         *)
(* Go values are represented as follows.                                   *)
(*   error            a sequence of messages, outermost wrapper first;     *)
(*                    the nil error is the empty sequence.                 *)
(*   []T              a record [nil, elems]; the nil slice has nil = TRUE. *)
(*   map[K]V          a record [nil, m], m a function on the key set.      *)
(*   extractor.FileMap an opaque token; NilFileMap is the nil map.         *)
(*   an analyzer      a record [name, requiredFiles, analyze], analyze     *)
(*                    being the table of what Analyze returns per FileMap. *)
(***************************************************************************)
EXTENDS Naturals, Sequences, FiniteSets

VARIABLES osAnalyzers, pkgAnalyzers, libAnalyzers, registered, ret

vars == <<osAnalyzers, pkgAnalyzers, libAnalyzers, registered, ret>>

\* Total number of Register* calls explored.
MaxRegistrations == 3

\* ------------------------------------------------------------------ errors

Nil == <<>>

ErrUnknownOS == <<"Unknown OS">>

ErrPkgAnalysis == <<"Failed to analyze packages">>

\* github.com/pkg/errors Wrap: nil stays nil, otherwise the message is put
\* in front of the cause.
Wrap(err, message) ==
    IF err = Nil THEN Nil ELSE <<message>> \o err

\* xerrors.Errorf("failed to analyze libraries: %w", err)
Errorf(message, err) ==
    <<message>> \o err

\* ------------------------------------------------------------------ values

NilSlice == [nil |-> TRUE, elems |-> <<>>]

Slice(s) == [nil |-> FALSE, elems |-> s]

NilMap == [nil |-> TRUE, m |-> <<>>]

Map(f) == [nil |-> FALSE, m |-> f]

NilFileMap == "nil"

FileMaps == {"alpineFiles", "debianFiles", NilFileMap}

EmptyOS == [Name |-> "", Family |-> ""]

OS(name, family) == [Name |-> name, Family |-> family]

TypeBinary == "binary"

TypeSource == "source"

Package(name, version, release, epoch, type) ==
    [Name |-> name, Version |-> version, Release |-> release,
     Epoch |-> epoch, Type |-> type]

\* The packages CheckPackage is applied to.
Packages ==
    [Name: {"", "musl"}, Version: {"", "1.1.22"}, Release: {"", "r3"},
     Epoch: {0, 1}, Type: {TypeBinary, TypeSource}]

\* ------------------------------------------------------------------ plugins

\* Registered OS analyzers: Analyze(FileMap) (OS, error), RequiredFiles().
OSAnalyzer ==
    { [name |-> "alpine",
       requiredFiles |-> <<"etc/alpine-release">>,
       analyze |-> [f \in FileMaps |->
           IF f = "alpineFiles"
           THEN [os |-> OS("3.10.2", "alpine"), err |-> Nil]
           ELSE [os |-> EmptyOS, err |-> <<"alpine: not match">>]]],
      [name |-> "debian",
       requiredFiles |-> <<"etc/os-release", "etc/debian_version">>,
       analyze |-> [f \in FileMaps |->
           IF f = NilFileMap
           THEN [os |-> EmptyOS, err |-> <<"debian: not match">>]
           ELSE [os |-> OS("9.6", "debian"), err |-> Nil]]],
      [name |-> "redhat",
       requiredFiles |-> <<"etc/os-release", "etc/redhat-release">>,
       analyze |-> [f \in FileMaps |->
           [os |-> OS("", "redhat"), err |-> <<"redhat: parse error">>]]] }

\* Registered package analyzers: Analyze(FileMap) ([]Package, error).
PkgAnalyzer ==
    { [name |-> "apk",
       requiredFiles |-> <<"lib/apk/db/installed">>,
       analyze |-> [f \in FileMaps |->
           IF f = "alpineFiles"
           THEN [pkgs |-> Slice(<<Package("musl", "1.1.22", "r3", 0, TypeBinary),
                                  Package("busybox", "", "", 0, TypeBinary)>>),
                 err |-> Nil]
           ELSE [pkgs |-> NilSlice, err |-> <<"apk: no database">>]]],
      [name |-> "dpkg",
       requiredFiles |-> <<"var/lib/dpkg/status", "etc/os-release">>,
       analyze |-> [f \in FileMaps |->
           IF f = NilFileMap
           THEN [pkgs |-> NilSlice, err |-> <<"dpkg: no database">>]
           ELSE IF f = "debianFiles"
           THEN [pkgs |-> Slice(<<Package("", "2.24", "", 1, TypeSource)>>),
                 err |-> Nil]
           ELSE [pkgs |-> Slice(<<>>), err |-> Nil]]],
      [name |-> "rpm",
       requiredFiles |-> <<"var/lib/rpm/Packages">>,
       analyze |-> [f \in FileMaps |->
           [pkgs |-> Slice(<<Package("bash", "4.2", "", 0, TypeBinary)>>),
            err |-> <<"rpm: corrupt database">>]]] }

\* Registered library analyzers:
\* Analyze(FileMap) (map[FilePath][]types.Library, error).
LibraryAnalyzer ==
    { [name |-> "bundler",
       requiredFiles |-> <<"Gemfile.lock">>,
       analyze |-> [f \in FileMaps |->
           IF f = NilFileMap
           THEN [libs |-> NilMap, err |-> Nil]
           ELSE [libs |-> Map([p \in {"app/a", "app/b"} |->
                               IF p = "app/a" THEN <<"lib1">> ELSE <<"lib3">>]),
                 err |-> Nil]]],
      [name |-> "npm",
       requiredFiles |-> <<"package-lock.json", "Gemfile.lock">>,
       analyze |-> [f \in FileMaps |->
           IF f = "debianFiles"
           THEN [libs |-> Map([p \in {"app/a"} |-> <<"lib0">>]),
                 err |-> <<"npm: invalid lock file">>]
           ELSE [libs |-> Map([p \in {"app/a"} |-> <<"lib2">>]), err |-> Nil]]],
      [name |-> "cargo",
       requiredFiles |-> <<>>,
       analyze |-> [f \in FileMaps |->
           IF f = "alpineFiles"
           THEN [libs |-> Map([p \in {"app/a", "app/c"} |->
                               IF p = "app/a" THEN <<"lib2", "lib4">> ELSE <<>>]),
                 err |-> Nil]
           ELSE [libs |-> NilMap, err |-> <<"cargo: invalid lock file">>]]] }

\* ------------------------------------------------------------------ registry

\* Variant: an analyzer already in the list is not appended again.
RegisterOSAnalyzerOnce(analyzer) ==
    IF \E i \in 1..Len(osAnalyzers) : osAnalyzers[i] = analyzer
    THEN osAnalyzers
    ELSE Append(osAnalyzers, analyzer)

RegisterOSAnalyzer(analyzer) ==
    Append(osAnalyzers, analyzer)

RegisterPkgAnalyzer(analyzer) ==
    Append(pkgAnalyzers, analyzer)

RegisterLibraryAnalyzer(analyzer) ==
    Append(libAnalyzers, analyzer)

Registrations ==
    Len(osAnalyzers) + Len(pkgAnalyzers) + Len(libAnalyzers)

Init ==
    /\ osAnalyzers = <<>>
    /\ pkgAnalyzers = <<>>
    /\ libAnalyzers = <<>>
    /\ registered = [os |-> <<>>, pkg |-> <<>>, lib |-> <<>>]
    /\ ret = [op |-> "init"]

CallRegisterOSAnalyzer(analyzer) ==
    /\ Registrations < MaxRegistrations
    /\ osAnalyzers' = RegisterOSAnalyzer(analyzer)
    /\ registered' = [registered EXCEPT !.os = Append(@, analyzer)]
    /\ ret' = [op |-> "RegisterOSAnalyzer", analyzer |-> analyzer]
    /\ UNCHANGED <<pkgAnalyzers, libAnalyzers>>

CallRegisterPkgAnalyzer(analyzer) ==
    /\ Registrations < MaxRegistrations
    /\ pkgAnalyzers' = RegisterPkgAnalyzer(analyzer)
    /\ registered' = [registered EXCEPT !.pkg = Append(@, analyzer)]
    /\ ret' = [op |-> "RegisterPkgAnalyzer", analyzer |-> analyzer]
    /\ UNCHANGED <<osAnalyzers, libAnalyzers>>

CallRegisterLibraryAnalyzer(analyzer) ==
    /\ Registrations < MaxRegistrations
    /\ libAnalyzers' = RegisterLibraryAnalyzer(analyzer)
    /\ registered' = [registered EXCEPT !.lib = Append(@, analyzer)]
    /\ ret' = [op |-> "RegisterLibraryAnalyzer", analyzer |-> analyzer]
    /\ UNCHANGED <<osAnalyzers, pkgAnalyzers>>

\* ------------------------------------------------------------------ RequiredFilenames

\* for _, analyzer := range analyzers { filenames = append(filenames, analyzer.RequiredFiles()...) }
RECURSIVE AppendRequiredFiles(_, _, _)
AppendRequiredFiles(filenames, analyzers, i) ==
    IF i > Len(analyzers)
    THEN filenames
    ELSE AppendRequiredFiles(filenames \o analyzers[i].requiredFiles, analyzers, i + 1)

\* Variant: a filename already collected is not appended again.
RECURSIVE AppendNewFiles(_, _)
AppendNewFiles(filenames, files) ==
    IF files = <<>>
    THEN filenames
    ELSE AppendNewFiles(
             IF \E k \in 1..Len(filenames) : filenames[k] = Head(files)
             THEN filenames
             ELSE Append(filenames, Head(files)),
             Tail(files))

RequiredFilenamesUnique ==
    AppendNewFiles(<<>>,
        AppendRequiredFiles(
            AppendRequiredFiles(
                AppendRequiredFiles(<<>>, osAnalyzers, 1),
                pkgAnalyzers, 1),
            libAnalyzers, 1))

RequiredFilenames ==
    AppendRequiredFiles(
        AppendRequiredFiles(
            AppendRequiredFiles(<<>>, osAnalyzers, 1),
            pkgAnalyzers, 1),
        libAnalyzers, 1)

\* ------------------------------------------------------------------ extraction

\* extractor.DockerOption{Timeout: 600 * time.Second}, in seconds.
ExtractTimeout == 600

ImageNames == {"alpine:3.10"}

Readers == {"image.tar"}

\* What the extractor collaborator may hand back: a file map, or an error
\* (with or without a partially filled map).
Extracted ==
    { [filesMap |-> "alpineFiles", err |-> Nil],
      [filesMap |-> "debianFiles", err |-> Nil],
      [filesMap |-> NilFileMap, err |-> <<"context deadline exceeded">>],
      [filesMap |-> "debianFiles", err |-> <<"context canceled">>],
      [filesMap |-> NilFileMap, err |-> <<"invalid tar header">>] }

\* Variant: what the extractor returned is handed on even when it failed.
AnalyzePartial(imageName, extracted) ==
    [filesMap |-> extracted.filesMap,
     err |-> Wrap(extracted.err, "Failed to extract files"),
     calls |-> <<[fn |-> "Extract", timeout |-> ExtractTimeout,
                  source |-> imageName, filenames |-> RequiredFilenames]>>]

Analyze(imageName, extracted) ==
    LET call == [fn |-> "Extract", timeout |-> ExtractTimeout,
                 source |-> imageName, filenames |-> RequiredFilenames]
    IN  IF extracted.err # Nil
        THEN [filesMap |-> NilFileMap,
              err |-> Wrap(extracted.err, "Failed to extract files"),
              calls |-> <<call>>]
        ELSE [filesMap |-> extracted.filesMap, err |-> Nil, calls |-> <<call>>]

AnalyzeFromFile(r, extracted) ==
    LET call == [fn |-> "ExtractFromFile", timeout |-> 0,
                 source |-> r, filenames |-> RequiredFilenames]
    IN  IF extracted.err # Nil
        THEN [filesMap |-> NilFileMap,
              err |-> Wrap(extracted.err, "Failed to extract files"),
              calls |-> <<call>>]
        ELSE [filesMap |-> extracted.filesMap, err |-> Nil, calls |-> <<call>>]

\* ------------------------------------------------------------------ resolvers

\* The loop of GetOS from analyzer i on; invoked lists the analyzers whose
\* Analyze has been called so far, by position in osAnalyzers.
RECURSIVE GetOSLoop(_, _, _)
GetOSLoop(filesMap, i, invoked) ==
    IF i > Len(osAnalyzers)
    THEN [os |-> EmptyOS, err |-> ErrUnknownOS, invoked |-> invoked]
    ELSE LET r == osAnalyzers[i].analyze[filesMap]
         IN  IF r.err # Nil
             THEN GetOSLoop(filesMap, i + 1, Append(invoked, i))
             ELSE [os |-> r.os, err |-> Nil, invoked |-> Append(invoked, i)]

\* Variant: the loop does not return on success; the last success wins.
RECURSIVE GetOSLoopLast(_, _, _, _)
GetOSLoopLast(filesMap, i, invoked, found) ==
    IF i > Len(osAnalyzers)
    THEN [os |-> found.os, err |-> found.err, invoked |-> invoked]
    ELSE LET r == osAnalyzers[i].analyze[filesMap]
         IN  GetOSLoopLast(filesMap, i + 1, Append(invoked, i),
                           IF r.err # Nil THEN found ELSE [os |-> r.os, err |-> Nil])

GetOSLast(filesMap) ==
    GetOSLoopLast(filesMap, 1, <<>>, [os |-> EmptyOS, err |-> ErrUnknownOS])

GetOS(filesMap) ==
    GetOSLoop(filesMap, 1, <<>>)

RECURSIVE GetPackagesLoop(_, _, _)
GetPackagesLoop(filesMap, i, invoked) ==
    IF i > Len(pkgAnalyzers)
    THEN [pkgs |-> NilSlice, err |-> ErrUnknownOS, invoked |-> invoked]
    ELSE LET r == pkgAnalyzers[i].analyze[filesMap]
         IN  IF r.err # Nil
             THEN GetPackagesLoop(filesMap, i + 1, Append(invoked, i))
             ELSE [pkgs |-> r.pkgs, err |-> Nil, invoked |-> Append(invoked, i)]

\* Variant: exhaustion is reported with ErrPkgAnalysis.
GetPackagesPkgErr(filesMap) ==
    LET out == GetPackagesLoop(filesMap, 1, <<>>)
    IN  IF out.err # Nil THEN [out EXCEPT !.err = ErrPkgAnalysis] ELSE out

\* Variant: the remaining analyzers are still called after a success.
RECURSIVE GetPackagesLoopNoStop(_, _, _, _)
GetPackagesLoopNoStop(filesMap, i, invoked, found) ==
    IF i > Len(pkgAnalyzers)
    THEN [pkgs |-> found.pkgs, err |-> found.err, invoked |-> invoked]
    ELSE LET r == pkgAnalyzers[i].analyze[filesMap]
         IN  GetPackagesLoopNoStop(filesMap, i + 1, Append(invoked, i),
                 IF r.err # Nil \/ found.err = Nil
                 THEN found
                 ELSE [pkgs |-> r.pkgs, err |-> Nil])

GetPackagesNoStop(filesMap) ==
    GetPackagesLoopNoStop(filesMap, 1, <<>>,
                          [pkgs |-> NilSlice, err |-> ErrUnknownOS])

GetPackages(filesMap) ==
    GetPackagesLoop(filesMap, 1, <<>>)

\* Variant: a package with a release counts as versioned.
CheckPackageRelease(pkg) ==
    pkg.Name # "" /\ (pkg.Version # "" \/ pkg.Release # "")

CheckPackage(pkg) ==
    pkg.Name # "" /\ pkg.Version # ""

\* for filePath, libs := range libMap { results[filePath] = libs }
\* Variant: on a key collision the lists are concatenated.
MergeLibMapConcat(results, libMap) ==
    [filePath \in (DOMAIN results) \cup (DOMAIN libMap.m) |->
        IF filePath \in DOMAIN libMap.m
        THEN IF filePath \in DOMAIN results
             THEN results[filePath] \o libMap.m[filePath]
             ELSE libMap.m[filePath]
        ELSE results[filePath]]

MergeLibMap(results, libMap) ==
    [filePath \in (DOMAIN results) \cup (DOMAIN libMap.m) |->
        IF filePath \in DOMAIN libMap.m THEN libMap.m[filePath] ELSE results[filePath]]

RECURSIVE GetLibrariesLoop(_, _, _, _)
GetLibrariesLoop(filesMap, i, results, invoked) ==
    IF i > Len(libAnalyzers)
    THEN [libs |-> Map(results), err |-> Nil, invoked |-> invoked]
    ELSE LET r == libAnalyzers[i].analyze[filesMap]
         IN  IF r.err # Nil
             THEN [libs |-> NilMap,
                   err |-> Errorf("failed to analyze libraries", r.err),
                   invoked |-> Append(invoked, i)]
             ELSE GetLibrariesLoop(filesMap, i + 1, MergeLibMap(results, r.libs),
                                   Append(invoked, i))

\* Variant: on an error the entries merged so far are returned with it.
RECURSIVE GetLibrariesLoopPartial(_, _, _, _)
GetLibrariesLoopPartial(filesMap, i, results, invoked) ==
    IF i > Len(libAnalyzers)
    THEN [libs |-> Map(results), err |-> Nil, invoked |-> invoked]
    ELSE LET r == libAnalyzers[i].analyze[filesMap]
         IN  IF r.err # Nil
             THEN [libs |-> Map(results),
                   err |-> Errorf("failed to analyze libraries", r.err),
                   invoked |-> Append(invoked, i)]
             ELSE GetLibrariesLoopPartial(filesMap, i + 1,
                      MergeLibMap(results, r.libs), Append(invoked, i))

GetLibrariesPartial(filesMap) ==
    GetLibrariesLoopPartial(filesMap, 1, <<>>, <<>>)

\* Variant: every analyzer is run and the last error is the one reported.
RECURSIVE GetLibrariesLoopAll(_, _, _, _, _)
GetLibrariesLoopAll(filesMap, i, results, invoked, err) ==
    IF i > Len(libAnalyzers)
    THEN IF err # Nil
         THEN [libs |-> NilMap,
               err |-> Errorf("failed to analyze libraries", err),
               invoked |-> invoked]
         ELSE [libs |-> Map(results), err |-> Nil, invoked |-> invoked]
    ELSE LET r == libAnalyzers[i].analyze[filesMap]
         IN  IF r.err # Nil
             THEN GetLibrariesLoopAll(filesMap, i + 1, results,
                                      Append(invoked, i), r.err)
             ELSE GetLibrariesLoopAll(filesMap, i + 1,
                      MergeLibMap(results, r.libs), Append(invoked, i), err)

GetLibrariesAll(filesMap) ==
    GetLibrariesLoopAll(filesMap, 1, <<>>, <<>>, Nil)

GetLibraries(filesMap) ==
    GetLibrariesLoop(filesMap, 1, <<>>, <<>>)

\* ------------------------------------------------------------------ calls

Registry == <<osAnalyzers, pkgAnalyzers, libAnalyzers, registered>>

CallRequiredFilenames ==
    /\ ret' = [op |-> "RequiredFilenames", filenames |-> RequiredFilenames]
    /\ UNCHANGED Registry

CallAnalyze(imageName, extracted) ==
    /\ ret' = [op |-> "Analyze", source |-> imageName, extracted |-> extracted,
               out |-> Analyze(imageName, extracted)]
    /\ UNCHANGED Registry

CallAnalyzeFromFile(r, extracted) ==
    /\ ret' = [op |-> "AnalyzeFromFile", source |-> r, extracted |-> extracted,
               out |-> AnalyzeFromFile(r, extracted)]
    /\ UNCHANGED Registry

CallGetOS(filesMap) ==
    /\ ret' = [op |-> "GetOS", filesMap |-> filesMap, out |-> GetOS(filesMap)]
    /\ UNCHANGED Registry

CallGetPackages(filesMap) ==
    /\ ret' = [op |-> "GetPackages", filesMap |-> filesMap,
               out |-> GetPackages(filesMap)]
    /\ UNCHANGED Registry

CallCheckPackage(pkg) ==
    /\ ret' = [op |-> "CheckPackage", pkg |-> pkg, out |-> CheckPackage(pkg)]
    /\ UNCHANGED Registry

CallGetLibraries(filesMap) ==
    /\ ret' = [op |-> "GetLibraries", filesMap |-> filesMap,
               out |-> GetLibraries(filesMap)]
    /\ UNCHANGED Registry

Next ==
    \/ \E analyzer \in OSAnalyzer : CallRegisterOSAnalyzer(analyzer)
    \/ \E analyzer \in PkgAnalyzer : CallRegisterPkgAnalyzer(analyzer)
    \/ \E analyzer \in LibraryAnalyzer : CallRegisterLibraryAnalyzer(analyzer)
    \/ CallRequiredFilenames
    \/ \E imageName \in ImageNames, extracted \in Extracted :
          CallAnalyze(imageName, extracted)
    \/ \E r \in Readers, extracted \in Extracted :
          CallAnalyzeFromFile(r, extracted)
    \/ \E filesMap \in FileMaps : CallGetOS(filesMap)
    \/ \E filesMap \in FileMaps : CallGetPackages(filesMap)
    \/ \E pkg \in Packages : CallCheckPackage(pkg)
    \/ \E filesMap \in FileMaps : CallGetLibraries(filesMap)

Spec == Init /\ [][Next]_vars

\* ------------------------------------------------------------------ properties

Min(S) == CHOOSE i \in S : \A j \in S : i <= j

Max(S) == CHOOSE i \in S : \A j \in S : j <= i

\* Positions of the analyzers of a list whose Analyze returns no error on filesMap.
Succeeding(analyzers, filesMap) ==
    {i \in 1..Len(analyzers) : analyzers[i].analyze[filesMap].err = <<>>}

Failing(analyzers, filesMap) ==
    {i \in 1..Len(analyzers) : analyzers[i].analyze[filesMap].err # <<>>}

\* C1: GetOS returns, with no error, the OS of the earliest-registered OS
\* analyzer that does not error; when every OS analyzer errors, or none is
\* registered, it returns the empty OS and the Unknown OS error, which is
\* none of the analyzers' own errors.
GetOSFirstSuccess ==
    ret.op = "GetOS" =>
        LET ok == Succeeding(osAnalyzers, ret.filesMap)
        IN  IF ok = {}
            THEN /\ ret.out.os = [Name |-> "", Family |-> ""]
                 /\ ret.out.err = <<"Unknown OS">>
                 /\ \A i \in 1..Len(osAnalyzers) :
                        ret.out.err # osAnalyzers[i].analyze[ret.filesMap].err
            ELSE /\ ret.out.os = osAnalyzers[Min(ok)].analyze[ret.filesMap].os
                 /\ ret.out.err = <<>>

\* GetOS skipped an erroring analyzer and chose between two that succeed.
GetOSFirstSuccessWitness ==
    /\ ret.op = "GetOS"
    /\ 1 \in Failing(osAnalyzers, ret.filesMap)
    /\ Cardinality(Succeeding(osAnalyzers, ret.filesMap)) = 2
    /\ ret.out.os =
           osAnalyzers[Min(Succeeding(osAnalyzers, ret.filesMap))].analyze[ret.filesMap].os
    /\ ret.out.os #
           osAnalyzers[Max(Succeeding(osAnalyzers, ret.filesMap))].analyze[ret.filesMap].os

LibKeys(i, filesMap) ==
    DOMAIN libAnalyzers[i].analyze[filesMap].libs.m

\* C3: when no library analyzer errors, GetLibraries returns a non-nil map
\* whose keys are the union of the analyzers' keys and whose list at a key is
\* the list of the last-registered analyzer that emitted the key; with no
\* analyzer registered that is the empty map.
GetLibrariesLastWins ==
    (ret.op = "GetLibraries" /\ Failing(libAnalyzers, ret.filesMap) = {}) =>
        /\ ret.out.err = <<>>
        /\ ~ret.out.libs.nil
        /\ DOMAIN ret.out.libs.m =
               UNION {LibKeys(i, ret.filesMap) : i \in 1..Len(libAnalyzers)}
        /\ \A filePath \in DOMAIN ret.out.libs.m :
               LET last == Max({i \in 1..Len(libAnalyzers) :
                                    filePath \in LibKeys(i, ret.filesMap)})
               IN  ret.out.libs.m[filePath] =
                       libAnalyzers[last].analyze[ret.filesMap].libs.m[filePath]

\* Two analyzers emitted different lists for one path and the later one's
\* list is the one returned.
GetLibrariesLastWinsWitness ==
    /\ ret.op = "GetLibraries"
    /\ ret.out.err = <<>>
    /\ \E i, j \in 1..Len(libAnalyzers) :
           /\ i < j
           /\ \E filePath \in LibKeys(i, ret.filesMap) \cap LibKeys(j, ret.filesMap) :
                  /\ libAnalyzers[i].analyze[ret.filesMap].libs.m[filePath] #
                         libAnalyzers[j].analyze[ret.filesMap].libs.m[filePath]
                  /\ ret.out.libs.m[filePath] =
                         libAnalyzers[j].analyze[ret.filesMap].libs.m[filePath]
           /\ LibKeys(i, ret.filesMap) \ LibKeys(j, ret.filesMap) # {}

\* C4: when any library analyzer errors, GetLibraries returns the nil map and
\* an error that starts with "failed to analyze libraries".
GetLibrariesAllOrNothing ==
    (ret.op = "GetLibraries" /\ Failing(libAnalyzers, ret.filesMap) # {}) =>
        /\ ret.out.libs = [nil |-> TRUE, m |-> <<>>]
        /\ ret.out.err # <<>>
        /\ Head(ret.out.err) = "failed to analyze libraries"

\* An analyzer that emitted entries was followed by one that errored.
GetLibrariesAllOrNothingWitness ==
    /\ ret.op = "GetLibraries"
    /\ Len(libAnalyzers) >= 2
    /\ 1 \in Succeeding(libAnalyzers, ret.filesMap)
    /\ LibKeys(1, ret.filesMap) # {}
    /\ 2 \in Failing(libAnalyzers, ret.filesMap)
    /\ ret.out.libs.nil

\* Number of registered analyzers of all three kinds.
NumAnalyzers ==
    Len(osAnalyzers) + Len(pkgAnalyzers) + Len(libAnalyzers)

\* RequiredFiles() of the k-th analyzer, counting OS analyzers first, then
\* package analyzers, then library analyzers.
RequiredFilesOf(k) ==
    IF k <= Len(osAnalyzers)
    THEN osAnalyzers[k].requiredFiles
    ELSE IF k <= Len(osAnalyzers) + Len(pkgAnalyzers)
    THEN pkgAnalyzers[k - Len(osAnalyzers)].requiredFiles
    ELSE libAnalyzers[k - Len(osAnalyzers) - Len(pkgAnalyzers)].requiredFiles

\* Number of filenames required by the analyzers before the k-th.
RECURSIVE FilesBefore(_)
FilesBefore(k) ==
    IF k <= 1 THEN 0 ELSE FilesBefore(k - 1) + Len(RequiredFilesOf(k - 1))

\* How often a filename occurs in a list.
Occurrences(filenames, name) ==
    Cardinality({k \in 1..Len(filenames) : filenames[k] = name})

\* C5: RequiredFilenames is the concatenation of RequiredFiles() of the OS,
\* then the package, then the library analyzers, each in registration order
\* and in its own order: its length is the sum of the lengths and nothing is
\* dropped or deduplicated.
RequiredFilenamesConcat ==
    ret.op = "RequiredFilenames" =>
        /\ Len(ret.filenames) = FilesBefore(NumAnalyzers + 1)
        /\ \A k \in 1..NumAnalyzers :
               \A j \in 1..Len(RequiredFilesOf(k)) :
                   ret.filenames[FilesBefore(k) + j] = RequiredFilesOf(k)[j]

\* Analyzers of all three kinds are registered and a path required by two of
\* them is listed twice.
RequiredFilenamesConcatWitness ==
    /\ ret.op = "RequiredFilenames"
    /\ Len(osAnalyzers) = 1 /\ Len(pkgAnalyzers) = 1 /\ Len(libAnalyzers) = 1
    /\ \E name \in {"etc/os-release"} :
           /\ Occurrences(osAnalyzers[1].requiredFiles, name) = 1
           /\ Occurrences(pkgAnalyzers[1].requiredFiles, name) = 1
           /\ Occurrences(ret.filenames, name) = 2

\* C6: CheckPackage holds exactly when Name and Version are both non-empty,
\* whatever Release, Epoch and Type are; GetPackages does not apply it: every
\* package of the winning analyzer's list, ill-formed or not, is returned at
\* its position.
CheckPackageNameAndVersion ==
    /\ ret.op = "CheckPackage" =>
           /\ ret.out = TRUE <=> (ret.pkg.Name # "" /\ ret.pkg.Version # "")
           /\ \A other \in Packages :
                  (other.Name = ret.pkg.Name /\ other.Version = ret.pkg.Version)
                      => (CheckPackage(other) <=> ret.out)
    /\ (ret.op = "GetPackages" /\ ret.out.err = <<>>) =>
           LET list == pkgAnalyzers[Min(Succeeding(pkgAnalyzers, ret.filesMap))]
                           .analyze[ret.filesMap].pkgs.elems
           IN  /\ Len(ret.out.pkgs.elems) = Len(list)
               /\ \A k \in 1..Len(list) : ret.out.pkgs.elems[k] = list[k]

\* GetPackages returned a list holding a package that CheckPackage rejects
\* next to one it accepts.
CheckPackageNameAndVersionWitness ==
    /\ ret.op = "GetPackages"
    /\ ret.out.err = <<>>
    /\ \E k \in 1..Len(ret.out.pkgs.elems) : ~CheckPackage(ret.out.pkgs.elems[k])
    /\ \E k \in 1..Len(ret.out.pkgs.elems) : CheckPackage(ret.out.pkgs.elems[k])

\* C7: Analyze and AnalyzeFromFile call the extractor once with the current
\* RequiredFilenames; when it errors they return the nil file map and a
\* "Failed to extract files" error wrapping the extractor's error, otherwise
\* the extractor's file map unchanged and no error.
ExtractionWrapsError ==
    ret.op \in {"Analyze", "AnalyzeFromFile"} =>
        /\ Len(ret.out.calls) = 1
        /\ ret.out.calls[1].fn =
               (IF ret.op = "Analyze" THEN "Extract" ELSE "ExtractFromFile")
        /\ ret.out.calls[1].source = ret.source
        /\ ret.out.calls[1].filenames = RequiredFilenames
        /\ IF ret.extracted.err # <<>>
           THEN /\ ret.out.filesMap = "nil"
                /\ ret.out.err # <<>>
                /\ Head(ret.out.err) = "Failed to extract files"
                /\ Tail(ret.out.err) = ret.extracted.err
           ELSE /\ ret.out.filesMap = ret.extracted.filesMap
                /\ ret.out.err = <<>>

\* Extraction by reference failed after the extractor had filled part of a
\* map, while analyzers requiring files are registered.
ExtractionWrapsErrorWitness ==
    /\ ret.op = "Analyze"
    /\ ret.extracted.err # <<>>
    /\ ret.extracted.filesMap # "nil"
    /\ ret.out.filesMap = "nil"
    /\ Len(ret.out.calls[1].filenames) >= 2

\* What one call may do to the registry, by the operation that was called.
RegistryStep ==
    /\ ret'.op = "RegisterOSAnalyzer" =>
           /\ osAnalyzers' = osAnalyzers \o <<ret'.analyzer>>
           /\ UNCHANGED <<pkgAnalyzers, libAnalyzers>>
    /\ ret'.op = "RegisterPkgAnalyzer" =>
           /\ pkgAnalyzers' = pkgAnalyzers \o <<ret'.analyzer>>
           /\ UNCHANGED <<osAnalyzers, libAnalyzers>>
    /\ ret'.op = "RegisterLibraryAnalyzer" =>
           /\ libAnalyzers' = libAnalyzers \o <<ret'.analyzer>>
           /\ UNCHANGED <<osAnalyzers, pkgAnalyzers>>
    /\ ret'.op \in {"RequiredFilenames", "GetOS", "GetPackages", "GetLibraries",
                    "Analyze", "AnalyzeFromFile", "CheckPackage"} =>
           UNCHANGED <<osAnalyzers, pkgAnalyzers, libAnalyzers>>

\* C8: each registry list is the sequence of analyzers passed to its own
\* Register operation, in call order, duplicates included; a registration
\* appends one element to its own list and leaves the other two alone, and
\* every other operation leaves all three lists alone.
RegistryAppendOnly ==
    /\ [](/\ osAnalyzers = registered.os
          /\ pkgAnalyzers = registered.pkg
          /\ libAnalyzers = registered.lib)
    /\ [][RegistryStep]_vars

\* One OS analyzer was registered twice, another kind once, and a resolver
\* has run since.
RegistryAppendOnlyWitness ==
    /\ Len(osAnalyzers) = 2
    /\ osAnalyzers[1] = osAnalyzers[2]
    /\ Len(libAnalyzers) = 1
    /\ ret.op = "GetOS"

\* The analyzers called are positions of the list, in increasing order.
InRegistrationOrder(invoked, analyzers) ==
    /\ \A k \in 1..Len(invoked) : invoked[k] \in 1..Len(analyzers)
    /\ \A k, l \in 1..Len(invoked) : k < l => invoked[k] < invoked[l]

Invoked(invoked) == {invoked[k] : k \in 1..Len(invoked)}

\* First-success-wins order of one call over a list of analyzers.
StopsAtFirstSuccess(invoked, analyzers, filesMap) ==
    /\ InRegistrationOrder(invoked, analyzers)
    /\ \A i \in Invoked(invoked) :
           /\ \A j \in 1..(i - 1) : j \in Failing(analyzers, filesMap)
           /\ i \in Succeeding(analyzers, filesMap) =>
                  \A j \in (i + 1)..Len(analyzers) : j \notin Invoked(invoked)

\* C9: within one GetOS or GetPackages call the analyzers are called in
\* registration order, each at most once; an analyzer is called only if all
\* registered before it errored, and none is called after one succeeded.
ResolversStopAtFirstSuccess ==
    /\ ret.op = "GetOS" =>
           StopsAtFirstSuccess(ret.out.invoked, osAnalyzers, ret.filesMap)
    /\ ret.op = "GetPackages" =>
           StopsAtFirstSuccess(ret.out.invoked, pkgAnalyzers, ret.filesMap)

\* GetPackages called two analyzers and left out a third that would have
\* succeeded as well.
ResolversStopAtFirstSuccessWitness ==
    /\ ret.op = "GetPackages"
    /\ Len(pkgAnalyzers) = 3
    /\ ret.out.invoked = <<1, 2>>
    /\ Succeeding(pkgAnalyzers, ret.filesMap) = {2, 3}

\* C10: within one GetLibraries call the analyzers are called in registration
\* order; when none errors each is called exactly once, and when one errors
\* the call stops at the earliest-registered erroring analyzer and the error
\* returned wraps that analyzer's error.
GetLibrariesStopsAtFirstError ==
    ret.op = "GetLibraries" =>
        LET bad == Failing(libAnalyzers, ret.filesMap)
        IN  /\ InRegistrationOrder(ret.out.invoked, libAnalyzers)
            /\ IF bad = {}
               THEN Invoked(ret.out.invoked) = 1..Len(libAnalyzers)
               ELSE /\ Invoked(ret.out.invoked) = 1..Min(bad)
                    /\ ret.out.err # <<>>
                    /\ Tail(ret.out.err) =
                           libAnalyzers[Min(bad)].analyze[ret.filesMap].err

\* A succeeding analyzer was followed by two that error differently; the
\* call stopped at the first of the two.
GetLibrariesStopsAtFirstErrorWitness ==
    /\ ret.op = "GetLibraries"
    /\ Failing(libAnalyzers, ret.filesMap) = {2, 3}
    /\ libAnalyzers[2].analyze[ret.filesMap].err #
           libAnalyzers[3].analyze[ret.filesMap].err
    /\ ret.out.invoked = <<1, 2>>

====
